---------------------------- MODULE Spec2Model ----------------------------
(***************************************************************************)
(* A model of the synchronization layer of the storage engine:             *)
(*   - monitoring/instrumented_mutex.cc: InstrumentedMutex::Lock and       *)
(*     InstrumentedCondVar::Wait / TimedWait, with the latency timer and   *)
(*     the COERCE_CONTEXT_SWITCH perturbation;                             *)
(*   - util/atomic.h: RelaxedAtomic<T> and AcqRelAtomic<T>.                *)
(*                                                                         *)
(* Threads are client threads that call the primitives.  A blocking call   *)
(* is split at the points where the caller can be suspended; pc[t] is the  *)
(* position of thread t.                                                   *)
(***************************************************************************)
EXTENDS Naturals, FiniteSets, Sequences

(***************************************************************************)
(* Bounds of the model.                                                    *)
(***************************************************************************)
NumThreads == 2      \* client threads of the mutex / condition variable
MaxIncs == 2         \* K: counter increments each thread performs
MaxLocks == 3        \* Lock() calls the threads make in all
MaxWaits == 2        \* Wait()/TimedWait() calls the threads make in all
MaxTime == 2         \* the clock runs from 0 to MaxTime
TBits == 2           \* width of the atomic cells' type T (an unsigned integer)
MaxWrites == 2       \* plain writes that make up the payload
MaxRounds == 2       \* retry loops each thread runs
MaxSpurious == 2     \* spurious failures of the weak CAS in all

Threads == 1..NumThreads
NoThread == 0

\* the sum of f[t] over the threads of S
RECURSIVE SumOver(_, _)
SumOver(f, S) ==
  IF S = {} THEN 0
  ELSE LET t == CHOOSE u \in S : TRUE IN f[t] + SumOver(f, S \ {t})

(***************************************************************************)
(* Program constants.                                                      *)
(***************************************************************************)
\* StatsLevel::kExceptTimeForMutex, the threshold stats_for_report compares
\* get_stats_level() with; kAll is the one level above it.
kExceptTimeForMutex == 4
StatsLevels == (kExceptTimeForMutex - 1)..(kExceptTimeForMutex + 1)

nullptr == "nullptr"
\* A Statistics*: the null pointer, or a sink with its get_stats_level()
NullStats == [ptr |-> nullptr, level |-> 0]
StatsSinks == {[ptr |-> "stats", level |-> l] : l \in StatsLevels}
DB_MUTEX_WAIT_MICROS == "DB_MUTEX_WAIT_MICROS"
OTHER_TICKER == "OTHER_TICKER"

VARIABLES
  \* ---- fixed at construction / build time ----
  stats_,        \* Statistics*: NullStats or a sink of StatsSinks
  clock_,        \* SystemClock*: nullptr or "clock"
  stats_code_,   \* the tag of the mutex
  bg_cv_,        \* InstrumentedCondVar*: nullptr or "cond_"
  COERCE_CONTEXT_SWITCH,  \* build switch
  NPERF_CONTEXT,          \* build switch
  \* ---- the instrumented mutex and its condition variable ----
  mutex_,        \* holder of the raw mutex, NoThread when unlocked
  cond_,         \* threads blocked in the raw condition variable
  woke,          \* per thread: why its last raw wait ended
  abs_time_us,   \* per thread: deadline handed to cond_.TimedWait
  now,           \* the clock
  \* ---- per call ----
  pc,            \* per thread: position
  timer,         \* per thread: the call's PerfStepTimer was started
  ret,           \* per thread: value returned by the last TimedWait
  \* ---- the statistics sink and the clients' shared data ----
  samples,       \* latency samples recorded in the sink
  counter,       \* shared plain counter
  tmp,           \* per thread: value read from counter
  \* ---- history ----
  incs,          \* per thread: increments completed
  lockCalls,     \* Lock() calls completed
  waitCalls,     \* Wait()/TimedWait() calls started
  overlapped     \* per thread: another thread took the mutex during its wait

VARIABLES
  \* ---- util/atomic.h: the cells and the memory around them ----
  v_,            \* per cell: the value of std::atomic<T> v_
  relView,       \* per cell: what the write of its value released (an index
                 \* of mem: the payload writes that happen before it)
  mem,           \* the writes to the plain payload, oldest first
  seen,          \* per thread: the newest payload write that happens before
                 \* the thread's next step (an index of mem)
  \* ---- the clients of the cells ----
  storeOp,       \* hand-off: the writer publishes with Store or StoreRelaxed
  loadOp,        \* the readers read the cell with Load or LoadRelaxed
  casOp,         \* retry loop: CasWeak or CasWeakRelaxed
  apc,           \* per thread: position
  expected,      \* per thread: the caller's `expected` slot (T&)
  call,          \* per thread: the pending compare-and-swap call
  res,           \* per thread: what its last compare-and-swap returned
  got,           \* per thread: the payload value read
  rounds,        \* per thread: retry loops completed
  \* ---- history ----
  lastOp,        \* the compare-and-swap that returned last, if none runs
  spurious,      \* spurious failures so far
  wins,          \* successful compare-and-swaps so far
  readAt         \* per thread: wins when its `expected` was last refreshed

VARIABLES
  \* ---- a single caller of a RelaxedAtomic and a plain variable beside it ----
  rop,           \* the operation of RelaxedAtomic called last
  rret,          \* what it returned (a bool as 0 or 1, void as 0)
  plain          \* a plain variable of type T put through the same calls:
                 \* its value, its `expected` slot and what the last
                 \* operation on it returned

VARIABLES
  \* ---- the sync point of TimedWaitInternal and the test that uses it ----
  sync_hits,     \* per thread: times the sync point was processed in the
                 \* TimedWait call in progress
  deadline_arg,  \* per thread: the deadline its TimedWait loop passes
  callback       \* the callback the test registered for the sync point

VARIABLES
  \* ---- a waiter in `while (!predicate) cv.Wait()` and its signallers ----
  predicate,     \* the condition waited for, read and written under the mutex
  cpc            \* per thread: position in the client's code

VARIABLES
  \* ---- threads that count in one RelaxedAtomic with FetchAddRelaxed(1) ----
  finitial,      \* the value the counter was constructed with
  fetched        \* per thread: the values its calls returned, oldest first

seqVars == <<rop, rret, plain>>
twVars == <<sync_hits, deadline_arg, callback>>
predVars == <<predicate, cpc>>
fetchVars == <<finitial, fetched>>
auxVars == <<seqVars, twVars, predVars, fetchVars>>

atomicVars == <<v_, relView, mem, seen, storeOp, loadOp, casOp, apc, expected,
                call, res, got, rounds, lastOp, spurious, wins, readAt>>

cfgVars == <<stats_, clock_, stats_code_, bg_cv_, COERCE_CONTEXT_SWITCH,
             NPERF_CONTEXT>>
mutexVars == <<mutex_, cond_, woke, abs_time_us, now, pc, timer, ret, samples,
               counter, tmp, incs, lockCalls, waitCalls, overlapped>>
vars == <<cfgVars, mutexVars, atomicVars, auxVars>>

(***************************************************************************)
(* The raw primitives under the instrumented ones (port::Mutex and         *)
(* port::CondVar), as the specification describes them.                    *)
(***************************************************************************)
\* mutex_.Lock(): blocks until the raw mutex is free, then takes it
MutexLock(t) == mutex_ = NoThread /\ mutex_' = t

\* mutex_.Unlock()
MutexUnlock(t) == mutex_ = t /\ mutex_' = NoThread

\* cond_.Wait() / cond_.TimedWait(), first half: atomically release the
\* associated mutex and block
CondBlock(t) ==
  /\ MutexUnlock(t)
  /\ cond_' = cond_ \cup {t}
  /\ woke' = [woke EXCEPT ![t] = "none"]

\* cond_.SignalAll(): every blocked thread is woken
CondSignalAll ==
  /\ cond_' = {}
  /\ woke' = [u \in Threads |-> IF u \in cond_ THEN "signal" ELSE woke[u]]

\* cond_.Signal(): one blocked thread is woken
CondSignal ==
  \E w \in cond_ :
    /\ cond_' = cond_ \ {w}
    /\ woke' = [woke EXCEPT ![w] = "signal"]

\* positions of a thread inside the raw wait (blocked, or woken and waiting
\* for the mutex)
RawWaitPcs == {"cond_Wait", "cond_TimedWait"}

(***************************************************************************)
(* monitoring/instrumented_mutex.cc                                        *)
(***************************************************************************)
\* stats_for_report without the test of the sink's level
stats_for_report_NoLevelTest(clock, stats) ==
  IF clock # nullptr /\ stats.ptr # nullptr THEN stats ELSE NullStats

\* stats_for_report without the test of the clock
stats_for_report_NoClockTest(clock, stats) ==
  IF stats.ptr # nullptr /\ stats.level > kExceptTimeForMutex
    THEN stats
    ELSE NullStats

stats_for_report(clock, stats) ==
  IF clock # nullptr /\ stats.ptr # nullptr /\ stats.level > kExceptTimeForMutex
    THEN stats
    ELSE NullStats

\* PERF_CONDITIONAL_TIMER_FOR_MUTEX_GUARD(metric, condition, stats, code):
\* the timer is started when the condition holds and stats is not null; the
\* macro is empty in a build with NPERF_CONTEXT.
PerfTimerStarts ==
  /\ ~NPERF_CONTEXT
  /\ stats_code_ = DB_MUTEX_WAIT_MICROS
  /\ stats_for_report(clock_, stats_).ptr # nullptr

\* the timer's destructor at the end of the call's scope: a started timer
\* records one sample in the sink
PerfTimerStop(t) ==
  /\ samples' = IF timer[t] THEN samples + 1 ELSE samples
  /\ timer' = [timer EXCEPT ![t] = FALSE]

\* the perturbation block without its tag test
ChaosApplies_AnyTag == COERCE_CONTEXT_SWITCH

\* the #ifdef COERCE_CONTEXT_SWITCH block of LockInternal is compiled in and
\* its tag test passes
ChaosApplies == COERCE_CONTEXT_SWITCH /\ stats_code_ = DB_MUTEX_WAIT_MICROS

\* positions of a thread inside Lock()
LockPcs == {"LockInternal", "sched_yield", "SleepForMicroseconds", "Lock_ret"}

\* Lock() calls started so far
LocksStarted ==
  lockCalls + Cardinality({u \in Threads : pc[u] \in LockPcs})

\* InstrumentedMutex::Lock(), up to the call of LockInternal()
Lock(t) ==
  /\ pc[t] = "idle"
  /\ LocksStarted < MaxLocks
  /\ timer' = [timer EXCEPT ![t] = PerfTimerStarts]
  /\ pc' = [pc EXCEPT ![t] = "LockInternal"]
  /\ UNCHANGED <<mutex_, cond_, woke, abs_time_us, now, ret, samples,
                 counter, tmp, incs, lockCalls, waitCalls, overlapped>>
  /\ UNCHANGED <<cfgVars, atomicVars, auxVars>>

\* LockInternal() returning from inside the perturbation block, before it
\* reaches mutex_.Lock()
LockInternal_PerturbThenReturn(t) ==
  /\ pc[t] = "LockInternal"
  /\ ChaosApplies
  /\ pc' = [pc EXCEPT ![t] = "Lock_ret"]
  /\ IF bg_cv_ # nullptr THEN CondSignalAll ELSE UNCHANGED <<cond_, woke>>
  /\ UNCHANGED <<mutex_, abs_time_us, now, timer, ret, samples,
                 counter, tmp, incs, lockCalls, waitCalls, overlapped>>
  /\ UNCHANGED <<cfgVars, atomicVars, auxVars>>

\* the perturbation run after mutex_.Lock(): the thread yields or sleeps with
\* the raw mutex held
LockInternal_PerturbHoldingMutex(t) ==
  /\ pc[t] = "LockInternal"
  /\ ChaosApplies
  /\ MutexLock(t)
  /\ \E oneIn2 \in BOOLEAN :
       pc' = [pc EXCEPT ![t] = IF oneIn2 THEN "sched_yield"
                                         ELSE "SleepForMicroseconds"]
  /\ IF bg_cv_ # nullptr THEN CondSignalAll ELSE UNCHANGED <<cond_, woke>>
  /\ UNCHANGED <<abs_time_us, now, timer, ret, samples,
                 counter, tmp, incs, lockCalls, waitCalls, overlapped>>
  /\ UNCHANGED <<cfgVars, atomicVars, auxVars>>

\* LockInternal(), the perturbation: rnd.OneIn(2) chooses between
\* SignalAll + sched_yield and SignalAll + SleepForMicroseconds
LockInternal_Perturb(t) ==
  /\ pc[t] = "LockInternal"
  /\ ChaosApplies
  /\ \E oneIn2 \in BOOLEAN :
       pc' = [pc EXCEPT ![t] = IF oneIn2 THEN "sched_yield"
                                         ELSE "SleepForMicroseconds"]
  /\ IF bg_cv_ # nullptr THEN CondSignalAll ELSE UNCHANGED <<cond_, woke>>
  /\ UNCHANGED <<mutex_, abs_time_us, now, timer, ret, samples,
                 counter, tmp, incs, lockCalls, waitCalls, overlapped>>
  /\ UNCHANGED <<cfgVars, atomicVars, auxVars>>

\* LockInternal() without the call of mutex_.Lock()
LockInternal_NoMutexLock(t) ==
  /\ IF ChaosApplies
       THEN pc[t] \in {"sched_yield", "SleepForMicroseconds"}
       ELSE pc[t] = "LockInternal"
  /\ pc' = [pc EXCEPT ![t] = "Lock_ret"]
  /\ UNCHANGED <<mutex_, cond_, woke, abs_time_us, now, timer, ret, samples,
                 counter, tmp, incs, lockCalls, waitCalls, overlapped>>
  /\ UNCHANGED <<cfgVars, atomicVars, auxVars>>

\* LockInternal(), mutex_.Lock(): after the perturbation, or at once when
\* the perturbation is compiled out or the tag differs
LockInternal_Acquire(t) ==
  /\ IF ChaosApplies
       THEN pc[t] \in {"sched_yield", "SleepForMicroseconds"}
       ELSE pc[t] = "LockInternal"
  /\ MutexLock(t)
  /\ pc' = [pc EXCEPT ![t] = "Lock_ret"]
  /\ overlapped' = [u \in Threads |->
                      overlapped[u] \/ (u # t /\ pc[u] \in RawWaitPcs)]
  /\ UNCHANGED <<cond_, woke, abs_time_us, now, timer, ret, samples,
                 counter, tmp, incs, lockCalls, waitCalls>>
  /\ UNCHANGED <<cfgVars, atomicVars, auxVars>>

LockInternal(t) == LockInternal_Perturb(t) \/ LockInternal_Acquire(t)

\* InstrumentedMutex::Lock(), the end of its scope: LockInternal() has
\* returned, the timer is destroyed, Lock() returns
LockReturn(t) ==
  /\ pc[t] = "Lock_ret"
  /\ PerfTimerStop(t)
  /\ lockCalls' = lockCalls + 1
  /\ pc' = [pc EXCEPT ![t] = "held"]
  /\ UNCHANGED <<mutex_, cond_, woke, abs_time_us, now, ret,
                 counter, tmp, incs, waitCalls, overlapped>>
  /\ UNCHANGED <<cfgVars, atomicVars, auxVars>>

\* InstrumentedMutex::Unlock(): releases the raw mutex, no instrumentation
Unlock(t) ==
  /\ pc[t] = "held"
  /\ MutexUnlock(t)
  /\ pc' = [pc EXCEPT ![t] = "idle"]
  /\ UNCHANGED <<cond_, woke, abs_time_us, now, timer, ret, samples,
                 counter, tmp, incs, lockCalls, waitCalls, overlapped>>
  /\ UNCHANGED <<cfgVars, atomicVars, auxVars>>

(***************************************************************************)
(* The clients' critical section: a non-atomic increment of the shared     *)
(* plain counter, a read followed by a write.                              *)
(***************************************************************************)
CounterRead(t) ==
  /\ pc[t] = "held"
  /\ incs[t] < MaxIncs
  /\ tmp' = [tmp EXCEPT ![t] = counter]
  /\ pc' = [pc EXCEPT ![t] = "increment"]
  /\ UNCHANGED <<mutex_, cond_, woke, abs_time_us, now, timer, ret, samples,
                 counter, incs, lockCalls, waitCalls, overlapped>>
  /\ UNCHANGED <<cfgVars, atomicVars, auxVars>>

CounterWrite(t) ==
  /\ pc[t] = "increment"
  /\ counter' = tmp[t] + 1
  /\ tmp' = [tmp EXCEPT ![t] = 0]
  /\ incs' = [incs EXCEPT ![t] = @ + 1]
  /\ pc' = [pc EXCEPT ![t] = "held"]
  /\ UNCHANGED <<mutex_, cond_, woke, abs_time_us, now, timer, ret, samples,
                 lockCalls, waitCalls, overlapped>>
  /\ UNCHANGED <<cfgVars, atomicVars, auxVars>>

(***************************************************************************)
(* InstrumentedCondVar                                                     *)
(***************************************************************************)
\* deadlines and sync-point callbacks the clients and tests use
Deadlines == 1..MaxTime
NoCallback == 0
Callbacks == {NoCallback} \cup Deadlines

\* TEST_SYNC_POINT_CALLBACK("InstrumentedCondVar::TimedWaitInternal",
\* &abs_time_us): a registered callback may rewrite the deadline through the
\* pointer; nothing happens when no callback is registered
SyncPointCallback(cb, deadline) == IF cb = NoCallback THEN deadline ELSE cb

\* WaitInternal() blocking on the condition variable with mutex_ kept
WaitInternal_KeepsMutex(t) ==
  /\ mutex_' = mutex_
  /\ cond_' = cond_ \cup {t}
  /\ woke' = [woke EXCEPT ![t] = "none"]
  /\ pc' = [pc EXCEPT ![t] = "cond_Wait"]

\* WaitInternal(): cond_.Wait(), up to the point where the caller blocks
WaitInternal(t) ==
  /\ CondBlock(t)
  /\ pc' = [pc EXCEPT ![t] = "cond_Wait"]

\* InstrumentedCondVar::Wait(): the timer, then WaitInternal()
WaitCall(t) ==
  /\ pc[t] = "held"
  /\ waitCalls < MaxWaits
  /\ timer' = [timer EXCEPT ![t] = PerfTimerStarts]
  /\ WaitInternal(t)
  /\ waitCalls' = waitCalls + 1
  /\ UNCHANGED <<abs_time_us, now, ret, samples, counter, tmp, incs,
                 lockCalls, overlapped>>
  /\ UNCHANGED <<cfgVars, atomicVars, seqVars, twVars, fetchVars>>

\* Wait() called by a thread that is not in the predicate loop
Wait(t) == WaitCall(t) /\ UNCHANGED predVars

\* TimedWaitInternal() without the sync point
TimedWaitInternal_NoSyncPoint(t, deadline, cb) ==
  /\ sync_hits' = sync_hits
  /\ CondBlock(t)
  /\ abs_time_us' = [abs_time_us EXCEPT ![t] = deadline]
  /\ pc' = [pc EXCEPT ![t] = "cond_TimedWait"]

\* TimedWaitInternal() taking its argument as a timeout relative to the call
TimedWaitInternal_Relative(t, deadline, cb) ==
  /\ sync_hits' = [sync_hits EXCEPT ![t] = @ + 1]
  /\ CondBlock(t)
  /\ abs_time_us' = [abs_time_us EXCEPT
                       ![t] = now + SyncPointCallback(cb, deadline)]
  /\ pc' = [pc EXCEPT ![t] = "cond_TimedWait"]

\* TimedWaitInternal(abs_time_us): the sync point, then cond_.TimedWait(),
\* up to the point where the caller blocks
TimedWaitInternal(t, deadline, cb) ==
  /\ sync_hits' = [sync_hits EXCEPT ![t] = @ + 1]
  /\ CondBlock(t)
  /\ abs_time_us' = [abs_time_us EXCEPT ![t] = SyncPointCallback(cb, deadline)]
  /\ pc' = [pc EXCEPT ![t] = "cond_TimedWait"]

\* InstrumentedCondVar::TimedWait(abs_time_us): the timer, then
\* TimedWaitInternal(); cb is the callback registered for the sync point
TimedWaitCall(t, deadline, cb) ==
  /\ pc[t] = "held"
  /\ waitCalls < MaxWaits
  /\ timer' = [timer EXCEPT ![t] = PerfTimerStarts]
  /\ TimedWaitInternal(t, deadline, cb)
  /\ waitCalls' = waitCalls + 1
  /\ UNCHANGED <<now, ret, samples, counter, tmp, incs, lockCalls,
                 overlapped>>
  /\ UNCHANGED <<cfgVars, atomicVars, seqVars, deadline_arg, callback,
                 predVars, fetchVars>>

\* TimedWait() called with any deadline, any callback registered
TimedWait(t) ==
  \E deadline \in Deadlines, cb \in Callbacks : TimedWaitCall(t, deadline, cb)

\* the raw wait ends without a signal (a spurious wakeup)
SpuriousWakeup(t) ==
  /\ t \in cond_
  /\ cond_' = cond_ \ {t}
  /\ woke' = [woke EXCEPT ![t] = "spurious"]
  /\ UNCHANGED <<mutex_, abs_time_us, now, pc, timer, ret, samples,
                 counter, tmp, incs, lockCalls, waitCalls, overlapped>>
  /\ UNCHANGED <<cfgVars, atomicVars, auxVars>>

\* the raw timed wait ends because the clock has reached the deadline
Timeout(t) ==
  /\ t \in cond_
  /\ pc[t] = "cond_TimedWait"
  /\ now >= abs_time_us[t]
  /\ cond_' = cond_ \ {t}
  /\ woke' = [woke EXCEPT ![t] = "timeout"]
  /\ UNCHANGED <<mutex_, abs_time_us, now, pc, timer, ret, samples,
                 counter, tmp, incs, lockCalls, waitCalls, overlapped>>
  /\ UNCHANGED <<cfgVars, atomicVars, auxVars>>

\* the raw wait returning without taking the mutex again
CondReacquire_NoMutexLock(t) ==
  /\ pc[t] \in RawWaitPcs
  /\ t \notin cond_
  /\ pc' = [pc EXCEPT ![t] = IF pc[t] = "cond_Wait" THEN "Wait_ret"
                                                    ELSE "TimedWait_ret"]
  /\ UNCHANGED <<mutex_, cond_, woke, abs_time_us, now, timer, ret, samples,
                 counter, tmp, incs, lockCalls, waitCalls, overlapped>>
  /\ UNCHANGED <<cfgVars, atomicVars, auxVars>>

\* cond_.Wait() / cond_.TimedWait(), second half: the woken thread takes the
\* mutex again and the raw wait returns
CondReacquire(t) ==
  /\ pc[t] \in RawWaitPcs
  /\ t \notin cond_
  /\ MutexLock(t)
  /\ pc' = [pc EXCEPT ![t] = IF pc[t] = "cond_Wait" THEN "Wait_ret"
                                                    ELSE "TimedWait_ret"]
  /\ overlapped' = [u \in Threads |->
                      overlapped[u] \/ (u # t /\ pc[u] \in RawWaitPcs)]
  /\ UNCHANGED <<cond_, woke, abs_time_us, now, timer, ret, samples,
                 counter, tmp, incs, lockCalls, waitCalls>>
  /\ UNCHANGED <<cfgVars, atomicVars, auxVars>>

\* InstrumentedCondVar::Wait(), the end of its scope
WaitReturn(t) ==
  /\ pc[t] = "Wait_ret"
  /\ PerfTimerStop(t)
  /\ pc' = [pc EXCEPT ![t] = "held"]
  /\ woke' = [woke EXCEPT ![t] = "none"]
  /\ overlapped' = [overlapped EXCEPT ![t] = FALSE]
  /\ UNCHANGED <<mutex_, cond_, abs_time_us, now, ret,
                 counter, tmp, incs, lockCalls, waitCalls>>
  /\ UNCHANGED <<cfgVars, atomicVars, auxVars>>

\* what cond_.TimedWait() returns: true when the deadline ended the wait
CondTimedWaitResult(t) == woke[t] = "timeout"

\* TimedWait() dropping the result of TimedWaitInternal()
TimedWaitResult_AlwaysFalse(t) == FALSE

\* what TimedWait() returns: return TimedWaitInternal(abs_time_us), which is
\* return cond_.TimedWait(abs_time_us)
TimedWaitResult(t) == CondTimedWaitResult(t)

\* InstrumentedCondVar::TimedWait(), the end of its scope
TimedWaitReturn(t) ==
  /\ pc[t] = "TimedWait_ret"
  /\ PerfTimerStop(t)
  /\ ret' = [ret EXCEPT ![t] = TimedWaitResult(t)]
  /\ pc' = [pc EXCEPT ![t] = "held"]
  /\ woke' = [woke EXCEPT ![t] = "none"]
  /\ abs_time_us' = [abs_time_us EXCEPT ![t] = 0]
  /\ overlapped' = [overlapped EXCEPT ![t] = FALSE]
  /\ sync_hits' = [sync_hits EXCEPT ![t] = 0]
  /\ UNCHANGED <<mutex_, cond_, now, counter, tmp, incs, lockCalls,
                 waitCalls>>
  /\ UNCHANGED <<cfgVars, atomicVars, seqVars, deadline_arg, callback,
                 predVars, fetchVars>>

\* InstrumentedCondVar::Signal(), by a thread that holds the mutex
Signal(t) ==
  /\ pc[t] = "held"
  /\ CondSignal
  /\ UNCHANGED <<mutex_, abs_time_us, now, pc, timer, ret, samples,
                 counter, tmp, incs, lockCalls, waitCalls, overlapped>>
  /\ UNCHANGED <<cfgVars, atomicVars, auxVars>>

\* InstrumentedCondVar::SignalAll(), by a thread that holds the mutex
SignalAll(t) ==
  /\ pc[t] = "held"
  /\ cond_ # {}
  /\ CondSignalAll
  /\ UNCHANGED <<mutex_, abs_time_us, now, pc, timer, ret, samples,
                 counter, tmp, incs, lockCalls, waitCalls, overlapped>>
  /\ UNCHANGED <<cfgVars, atomicVars, auxVars>>

\* the clock advances
Tick ==
  /\ now < MaxTime
  /\ now' = now + 1
  /\ UNCHANGED <<mutex_, cond_, woke, abs_time_us, pc, timer, ret, samples,
                 counter, tmp, incs, lockCalls, waitCalls, overlapped>>
  /\ UNCHANGED <<cfgVars, atomicVars, auxVars>>

\* no TimedWait is in progress, no test of the sync point runs
TwIdle ==
  /\ sync_hits = [t \in Threads |-> 0]
  /\ deadline_arg = [t \in Threads |-> 0]
  /\ callback = NoCallback

(***************************************************************************)
(* Initial states: every construction of the mutex and every build.       *)
(***************************************************************************)
InitMutex ==
  /\ mutex_ = NoThread
  /\ cond_ = {}
  /\ woke = [t \in Threads |-> "none"]
  /\ abs_time_us = [t \in Threads |-> 0]
  /\ now = 0
  /\ pc = [t \in Threads |-> "idle"]
  /\ timer = [t \in Threads |-> FALSE]
  /\ ret = [t \in Threads |-> FALSE]
  /\ samples = 0
  /\ counter = 0
  /\ tmp = [t \in Threads |-> 0]
  /\ incs = [t \in Threads |-> 0]
  /\ lockCalls = 0
  /\ waitCalls = 0
  /\ overlapped = [t \in Threads |-> FALSE]


(***************************************************************************)
(* util/atomic.h                                                           *)
(*                                                                         *)
(* A cell holds one value of T, an unsigned integer of TBits bits.  Every  *)
(* operation on a cell is indivisible and acts on the cell's current       *)
(* value.  What the memory orders add is ordering with the other memory:   *)
(* the plain payload is a list of writes, a thread may read any write not  *)
(* older than the newest one that happens before its read (seen), a        *)
(* release operation attaches the writer's view to the cell and an acquire *)
(* operation that reads the cell joins that view.                          *)
(***************************************************************************)
TMod == 2 ^ TBits
Values == 0..(TMod - 1)
Cells == {"x", "y"}
InitMem == <<0>>
\* the view of a thread that has synchronized with nobody
BottomView == Len(InitMem)

Max(a, b) == IF a >= b THEN a ELSE b

\* std::atomic<T>::store(desired, order): the cell's new value and what it
\* releases
atomic_store(view, desired, order) ==
  [v |-> desired,
   rel |-> IF order = "release" THEN view ELSE BottomView]

\* std::atomic<T>::load(order): the value read and the reader's new view
atomic_load(cur, rv, view, order) ==
  [val |-> cur,
   view |-> IF order = "acquire" THEN Max(view, rv) ELSE view]

\* std::atomic<T>::compare_exchange_strong(expected, desired, order): succeeds
\* exactly when the cell holds `expected`; a failure is a load that writes
\* the cell's value into `expected`
compare_exchange_strong(cur, rv, view, exp, desired, order) ==
  LET joined == IF order = "acq_rel" THEN Max(view, rv) ELSE view IN
  IF cur = exp
    THEN [ret |-> TRUE, v |-> desired, expected |-> exp, view |-> joined,
          rel |-> IF order = "acq_rel" THEN joined ELSE rv]
    ELSE [ret |-> FALSE, v |-> cur, expected |-> cur, view |-> joined,
          rel |-> rv]

\* std::atomic<T>::compare_exchange_weak(expected, desired, order): as the
\* strong one, but it may fail spuriously, with the cell holding `expected`
compare_exchange_weak(cur, rv, view, exp, desired, order, spur) ==
  IF spur /\ cur = exp
    THEN [ret |-> FALSE, v |-> cur, expected |-> cur,
          view |-> IF order = "acq_rel" THEN Max(view, rv) ELSE view,
          rel |-> rv]
    ELSE compare_exchange_strong(cur, rv, view, exp, desired, order)

\* RelaxedAtomic<T>
StoreRelaxed(view, desired) == atomic_store(view, desired, "relaxed")

\* LoadRelaxed with the order of Load
LoadRelaxed_Acquire(cur, rv, view) == atomic_load(cur, rv, view, "acquire")

LoadRelaxed(cur, rv, view) == atomic_load(cur, rv, view, "relaxed")

\* CasWeakRelaxed leaving the caller's `expected` as it was on a failure
CasWeakRelaxed_KeepsExpected(cur, rv, view, exp, desired, spur) ==
  [compare_exchange_weak(cur, rv, view, exp, desired, "relaxed", spur)
     EXCEPT !.expected = exp]

CasWeakRelaxed(cur, rv, view, exp, desired, spur) ==
  compare_exchange_weak(cur, rv, view, exp, desired, "relaxed", spur)

\* CasStrongRelaxed calling compare_exchange_weak
CasStrongRelaxed_Weak(cur, rv, view, exp, desired, spur) ==
  compare_exchange_weak(cur, rv, view, exp, desired, "relaxed", spur)

CasStrongRelaxed(cur, rv, view, exp, desired, spur) ==
  compare_exchange_strong(cur, rv, view, exp, desired, "relaxed")

\* AcqRelAtomic<T>
\* Store with std::memory_order_relaxed
Store_Relaxed(view, desired) == atomic_store(view, desired, "relaxed")

Store(view, desired) == atomic_store(view, desired, "release")

Load(cur, rv, view) == atomic_load(cur, rv, view, "acquire")

\* CasWeak storing `desired` although the comparison failed
CasWeak_StoresOnFailure(cur, rv, view, exp, desired, spur) ==
  LET r == compare_exchange_weak(cur, rv, view, exp, desired, "acq_rel", spur)
  IN IF r.ret THEN r ELSE [r EXCEPT !.v = desired]

CasWeak(cur, rv, view, exp, desired, spur) ==
  compare_exchange_weak(cur, rv, view, exp, desired, "acq_rel", spur)

CasStrong(cur, rv, view, exp, desired, spur) ==
  compare_exchange_strong(cur, rv, view, exp, desired, "acq_rel")

CasOps == {"CasWeakRelaxed", "CasStrongRelaxed", "CasWeak", "CasStrong"}
WeakCasOps == {"CasWeakRelaxed", "CasWeak"}
StrongCasOps == {"CasStrongRelaxed", "CasStrong"}

\* the call op(expected, desired) on a cell
ApplyCas(op, cur, rv, view, exp, desired, spur) ==
  CASE op = "CasWeakRelaxed" -> CasWeakRelaxed(cur, rv, view, exp, desired, spur)
    [] op = "CasStrongRelaxed" -> CasStrongRelaxed(cur, rv, view, exp, desired, spur)
    [] op = "CasWeak" -> CasWeak(cur, rv, view, exp, desired, spur)
    [] op = "CasStrong" -> CasStrong(cur, rv, view, exp, desired, spur)

\* the call Store(desired) or StoreRelaxed(desired)
ApplyStore(op, view, desired) ==
  IF op = "Store" THEN Store(view, desired) ELSE StoreRelaxed(view, desired)

\* the call Load() or LoadRelaxed()
ApplyLoad(op, cur, rv, view) ==
  IF op = "Load" THEN Load(cur, rv, view) ELSE LoadRelaxed(cur, rv, view)

NoCall == [op |-> "none", cell |-> "x", desired |-> 0]

\* the cells after construction (T initial = {}), clients not started
InitAtomic ==
  /\ v_ = [c \in Cells |-> 0]
  /\ relView = [c \in Cells |-> BottomView]
  /\ mem = InitMem
  /\ seen = [t \in Threads |-> BottomView]
  /\ expected = [t \in Threads |-> 0]
  /\ call = [t \in Threads |-> NoCall]
  /\ res = [t \in Threads |-> FALSE]
  /\ got = [t \in Threads |-> 0]
  /\ rounds = [t \in Threads |-> 0]
  /\ lastOp = "none"
  /\ spurious = 0
  /\ wins = 0
  /\ readAt = [t \in Threads |-> 0]

\* no client of the cells runs
AtomicIdle ==
  /\ InitAtomic
  /\ storeOp = "Store"
  /\ loadOp = "Load"
  /\ casOp = "CasWeak"
  /\ apc = [t \in Threads |-> "off"]

(***************************************************************************)
(* Clients of the cells, 1: thread 1 calls the four compare-and-swaps with *)
(* any arguments on any cell, the other threads store to the cells.        *)
(***************************************************************************)
Caser == 1

\* the caller sets its `expected` slot and calls op(expected, desired)
CasCall(t) ==
  /\ t = Caser
  /\ apc[t] = "ops"
  /\ \E op \in CasOps, c \in Cells, e \in Values, d \in Values :
       /\ call' = [call EXCEPT ![t] = [op |-> op, cell |-> c, desired |-> d]]
       /\ expected' = [expected EXCEPT ![t] = e]
  /\ res' = [res EXCEPT ![t] = FALSE]
  /\ lastOp' = "none"
  /\ apc' = [apc EXCEPT ![t] = "cas"]
  /\ UNCHANGED <<v_, relView, mem, seen, storeOp, loadOp, casOp, got, rounds,
                 spurious, wins, readAt>>
  /\ UNCHANGED <<cfgVars, mutexVars, auxVars>>

\* the compare-and-swap itself, one indivisible step, and its return
CasExec(t) ==
  /\ apc[t] = "cas"
  /\ call[t].op \in CasOps
  /\ \E spur \in BOOLEAN :
       LET c == call[t].cell
           r == ApplyCas(call[t].op, v_[c], relView[c], seen[t], expected[t],
                         call[t].desired, spur) IN
       /\ v_' = [v_ EXCEPT ![c] = r.v]
       /\ relView' = [relView EXCEPT ![c] = r.rel]
       /\ seen' = [seen EXCEPT ![t] = r.view]
       /\ expected' = [expected EXCEPT ![t] = r.expected]
       /\ res' = [res EXCEPT ![t] = r.ret]
  /\ lastOp' = call[t].op
  /\ call' = [call EXCEPT ![t] = NoCall]
  /\ apc' = [apc EXCEPT ![t] = "ops"]
  /\ UNCHANGED <<mem, storeOp, loadOp, casOp, got, rounds, spurious, wins,
                 readAt>>
  /\ UNCHANGED <<cfgVars, mutexVars, auxVars>>

DoStore(t) ==
  /\ t # Caser
  /\ apc[t] = "ops"
  /\ \E op \in {"Store", "StoreRelaxed"}, c \in Cells, d \in Values :
       LET r == ApplyStore(op, seen[t], d) IN
       /\ v_' = [v_ EXCEPT ![c] = r.v]
       /\ relView' = [relView EXCEPT ![c] = r.rel]
  /\ UNCHANGED <<mem, seen, storeOp, loadOp, casOp, apc, expected, call, res,
                 got, rounds, lastOp, spurious, wins, readAt>>
  /\ UNCHANGED <<cfgVars, mutexVars, auxVars>>

(***************************************************************************)
(* Clients of the cells, 2: the hand-off.  Thread 1 writes the plain       *)
(* payload and then sets the flag cell "x"; the other threads spin on the  *)
(* flag and, once they see it set, read the payload.                       *)
(***************************************************************************)
Writer == 1
Readers == Threads \ {Writer}
FlagSet == 1

WritePayload ==
  /\ apc[Writer] = "write"
  /\ \E d \in Values \ {0} : mem' = Append(mem, d)
  /\ seen' = [seen EXCEPT ![Writer] = Len(mem')]
  /\ apc' = [apc EXCEPT ![Writer] =
               IF Len(mem') = Len(InitMem) + MaxWrites THEN "publish"
                                                       ELSE "write"]
  /\ UNCHANGED <<v_, relView, storeOp, loadOp, casOp, expected, call, res,
                 got, rounds, lastOp, spurious, wins, readAt>>
  /\ UNCHANGED <<cfgVars, mutexVars, auxVars>>

Publish ==
  /\ apc[Writer] = "publish"
  /\ LET r == ApplyStore(storeOp, seen[Writer], FlagSet) IN
       /\ v_' = [v_ EXCEPT !["x"] = r.v]
       /\ relView' = [relView EXCEPT !["x"] = r.rel]
  /\ apc' = [apc EXCEPT ![Writer] = "done"]
  /\ UNCHANGED <<mem, seen, storeOp, loadOp, casOp, expected, call, res,
                 got, rounds, lastOp, spurious, wins, readAt>>
  /\ UNCHANGED <<cfgVars, mutexVars, auxVars>>

Spin(t) ==
  /\ t \in Readers
  /\ apc[t] = "spin"
  /\ LET r == ApplyLoad(loadOp, v_["x"], relView["x"], seen[t]) IN
       /\ seen' = [seen EXCEPT ![t] = r.view]
       /\ apc' = [apc EXCEPT ![t] = IF r.val = FlagSet THEN "read" ELSE "spin"]
  /\ UNCHANGED <<v_, relView, mem, storeOp, loadOp, casOp, expected, call,
                 res, got, rounds, lastOp, spurious, wins, readAt>>
  /\ UNCHANGED <<cfgVars, mutexVars, auxVars>>

\* the plain read returns a write that is not older than the newest one that
\* happens before the read; when a newer write races with the read, either
ReadPayload(t) ==
  /\ t \in Readers
  /\ apc[t] = "read"
  /\ \E i \in seen[t]..Len(mem) : got' = [got EXCEPT ![t] = mem[i]]
  /\ apc' = [apc EXCEPT ![t] = "done"]
  /\ UNCHANGED <<v_, relView, mem, seen, storeOp, loadOp, casOp, expected,
                 call, res, rounds, lastOp, spurious, wins, readAt>>
  /\ UNCHANGED <<cfgVars, mutexVars, auxVars>>

(***************************************************************************)
(* Clients of the cells, 3: the retry loop on cell "x",                    *)
(*   expected = load; while (!casWeak(expected, f(expected))) {}           *)
(***************************************************************************)
f(e) == (e + 1) % TMod

RetryLoad(t) ==
  /\ apc[t] = "load"
  /\ LET r == ApplyLoad(loadOp, v_["x"], relView["x"], seen[t]) IN
       /\ expected' = [expected EXCEPT ![t] = r.val]
       /\ seen' = [seen EXCEPT ![t] = r.view]
  /\ readAt' = [readAt EXCEPT ![t] = wins]
  /\ apc' = [apc EXCEPT ![t] = "cas"]
  /\ UNCHANGED <<v_, relView, mem, storeOp, loadOp, casOp, call, res, got,
                 rounds, lastOp, spurious, wins>>
  /\ UNCHANGED <<cfgVars, mutexVars, auxVars>>

RetryCas(t) ==
  /\ apc[t] = "cas"
  /\ \E spur \in BOOLEAN :
       /\ spur => (spurious < MaxSpurious /\ v_["x"] = expected[t])
       /\ LET r == ApplyCas(casOp, v_["x"], relView["x"], seen[t],
                            expected[t], f(expected[t]), spur) IN
            /\ v_' = [v_ EXCEPT !["x"] = r.v]
            /\ relView' = [relView EXCEPT !["x"] = r.rel]
            /\ seen' = [seen EXCEPT ![t] = r.view]
            /\ expected' = [expected EXCEPT ![t] = r.expected]
            /\ res' = [res EXCEPT ![t] = r.ret]
            /\ spurious' = IF spur THEN spurious + 1 ELSE spurious
            /\ wins' = IF r.ret THEN wins + 1 ELSE wins
            /\ readAt' = [readAt EXCEPT ![t] = IF r.ret THEN @ ELSE wins]
            /\ rounds' = [rounds EXCEPT ![t] = IF r.ret THEN @ + 1 ELSE @]
            /\ apc' = [apc EXCEPT ![t] =
                         IF ~r.ret THEN "cas"
                         ELSE IF rounds[t] + 1 = MaxRounds THEN "done"
                         ELSE "load"]
  /\ lastOp' = casOp
  /\ UNCHANGED <<mem, storeOp, loadOp, casOp, call, got>>
  /\ UNCHANGED <<cfgVars, mutexVars, auxVars>>

(***************************************************************************)
(* RelaxedAtomic<T>, the read-modify-write operations.  T is an unsigned   *)
(* integer of TBits bits: the arithmetic wraps around, the bitwise         *)
(* operations act on each of the TBits bits.                               *)
(***************************************************************************)
\* a op b bit by bit, on the n lowest bits
RECURSIVE Bitwise(_, _, _, _)
Bitwise(op, a, b, n) ==
  IF n = 0 THEN 0
  ELSE LET x == a % 2
           y == b % 2
           bit == CASE op = "and" -> x * y
                    [] op = "or" -> IF x + y > 0 THEN 1 ELSE 0
                    [] op = "xor" -> (x + y) % 2
       IN bit + 2 * Bitwise(op, a \div 2, b \div 2, n - 1)

\* std::atomic<T>::exchange(desired, memory_order_relaxed): returns the value
\* it replaces; a relaxed read-modify-write releases nothing of its own and
\* joins nothing
atomic_exchange(cur, rv, view, desired) ==
  [ret |-> cur, v |-> desired, view |-> view, rel |-> rv]

\* std::atomic<T>::fetch_add / fetch_sub / fetch_and / fetch_or / fetch_xor
\* (operand, memory_order_relaxed): return the value they modify
atomic_fetch_add(cur, rv, view, operand) ==
  [ret |-> cur, v |-> (cur + operand) % TMod, view |-> view, rel |-> rv]

atomic_fetch_sub(cur, rv, view, operand) ==
  [ret |-> cur, v |-> (cur + TMod - operand) % TMod, view |-> view, rel |-> rv]

atomic_fetch_and(cur, rv, view, operand) ==
  [ret |-> cur, v |-> Bitwise("and", cur, operand, TBits), view |-> view,
   rel |-> rv]

atomic_fetch_or(cur, rv, view, operand) ==
  [ret |-> cur, v |-> Bitwise("or", cur, operand, TBits), view |-> view,
   rel |-> rv]

atomic_fetch_xor(cur, rv, view, operand) ==
  [ret |-> cur, v |-> Bitwise("xor", cur, operand, TBits), view |-> view,
   rel |-> rv]

ExchangeRelaxed(cur, rv, view, desired) ==
  atomic_exchange(cur, rv, view, desired)

\* FetchAddRelaxed that reads the cell and leaves it as it was
FetchAddRelaxed_LoadOnly(cur, rv, view, operand) ==
  [atomic_fetch_add(cur, rv, view, operand) EXCEPT !.v = cur]

\* FetchAddRelaxed returning the value after the addition
FetchAddRelaxed_ReturnsNew(cur, rv, view, operand) ==
  [atomic_fetch_add(cur, rv, view, operand)
     EXCEPT !.ret = (cur + operand) % TMod]

FetchAddRelaxed(cur, rv, view, operand) ==
  atomic_fetch_add(cur, rv, view, operand)

FetchSubRelaxed(cur, rv, view, operand) ==
  atomic_fetch_sub(cur, rv, view, operand)

FetchAndRelaxed(cur, rv, view, operand) ==
  atomic_fetch_and(cur, rv, view, operand)

FetchOrRelaxed(cur, rv, view, operand) ==
  atomic_fetch_or(cur, rv, view, operand)

FetchXorRelaxed(cur, rv, view, operand) ==
  atomic_fetch_xor(cur, rv, view, operand)

\* explicit RelaxedAtomic(T initial = {}) : v_(initial)
RelaxedAtomic(initial) == initial
DefaultInitial == 0

FetchOps == {"ExchangeRelaxed", "FetchAddRelaxed", "FetchSubRelaxed",
             "FetchAndRelaxed", "FetchOrRelaxed", "FetchXorRelaxed"}

\* the call op(operand) of an exchange or fetch operation
ApplyFetch(op, cur, rv, view, operand) ==
  CASE op = "ExchangeRelaxed" -> ExchangeRelaxed(cur, rv, view, operand)
    [] op = "FetchAddRelaxed" -> FetchAddRelaxed(cur, rv, view, operand)
    [] op = "FetchSubRelaxed" -> FetchSubRelaxed(cur, rv, view, operand)
    [] op = "FetchAndRelaxed" -> FetchAndRelaxed(cur, rv, view, operand)
    [] op = "FetchOrRelaxed" -> FetchOrRelaxed(cur, rv, view, operand)
    [] op = "FetchXorRelaxed" -> FetchXorRelaxed(cur, rv, view, operand)

(***************************************************************************)
(* Clients of the cells, 4: one thread calls the operations of a           *)
(* RelaxedAtomic in any order with any arguments; beside the cell it puts  *)
(* a plain variable through the same operations.                           *)
(***************************************************************************)
\* the set bits of n, and the number with the bits of S set
BitsOf(n) == {i \in 0..(TBits - 1) : (n \div (2 ^ i)) % 2 = 1}

RECURSIVE FromBits(_)
FromBits(S) ==
  IF S = {} THEN 0
  ELSE LET i == CHOOSE j \in S : TRUE IN (2 ^ i) + FromBits(S \ {i})

BoolToT(b) == IF b THEN 1 ELSE 0

\* `op` on a plain variable of value x with the `expected` slot e and the
\* argument a, written as sequential code: the variable afterwards, the slot
\* and the value returned
PlainStep(op, x, e, a) ==
  CASE op = "StoreRelaxed" -> [v |-> a, e |-> e, ret |-> 0]
    [] op = "LoadRelaxed" -> [v |-> x, e |-> e, ret |-> x]
    [] op = "ExchangeRelaxed" -> [v |-> a, e |-> e, ret |-> x]
    [] op = "FetchAddRelaxed" ->
         [v |-> IF x + a >= TMod THEN x + a - TMod ELSE x + a,
          e |-> e, ret |-> x]
    [] op = "FetchSubRelaxed" ->
         [v |-> IF x >= a THEN x - a ELSE TMod + x - a, e |-> e, ret |-> x]
    [] op = "FetchAndRelaxed" ->
         [v |-> FromBits(BitsOf(x) \cap BitsOf(a)), e |-> e, ret |-> x]
    [] op = "FetchOrRelaxed" ->
         [v |-> FromBits(BitsOf(x) \cup BitsOf(a)), e |-> e, ret |-> x]
    [] op = "FetchXorRelaxed" ->
         [v |-> FromBits((BitsOf(x) \cup BitsOf(a))
                           \ (BitsOf(x) \cap BitsOf(a))),
          e |-> e, ret |-> x]
    [] op = "CasStrongRelaxed" ->
         IF x = e THEN [v |-> a, e |-> e, ret |-> 1]
                  ELSE [v |-> x, e |-> x, ret |-> 0]

SeqOps == FetchOps \cup {"StoreRelaxed", "LoadRelaxed", "CasStrongRelaxed"}

\* the call of `op` on cell "x" with the `expected` slot e and the argument
\* a, as the record [ret, v, expected, view, rel]
ApplySeq(op, cur, rv, view, e, a) ==
  CASE op = "StoreRelaxed" ->
         LET r == StoreRelaxed(view, a) IN
         [ret |-> 0, v |-> r.v, expected |-> e, view |-> view, rel |-> r.rel]
    [] op = "LoadRelaxed" ->
         LET r == LoadRelaxed(cur, rv, view) IN
         [ret |-> r.val, v |-> cur, expected |-> e, view |-> r.view,
          rel |-> rv]
    [] op = "CasStrongRelaxed" ->
         LET r == CasStrongRelaxed(cur, rv, view, e, a, FALSE) IN
         [r EXCEPT !.ret = BoolToT(r.ret)]
    [] op \in FetchOps ->
         LET r == ApplyFetch(op, cur, rv, view, a) IN
         [ret |-> r.ret, v |-> r.v, expected |-> e, view |-> r.view,
          rel |-> r.rel]

SeqCall(t) ==
  /\ apc[t] = "seq"
  /\ \E op \in SeqOps, e \in Values, a \in Values :
       LET r == ApplySeq(op, v_["x"], relView["x"], seen[t], e, a) IN
       /\ v_' = [v_ EXCEPT !["x"] = r.v]
       /\ relView' = [relView EXCEPT !["x"] = r.rel]
       /\ seen' = [seen EXCEPT ![t] = r.view]
       /\ expected' = [expected EXCEPT ![t] = r.expected]
       /\ rop' = op
       /\ rret' = r.ret
       /\ plain' = PlainStep(op, plain.v, e, a)
  /\ UNCHANGED <<mem, storeOp, loadOp, casOp, apc, call, res, got, rounds,
                 lastOp, spurious, wins, readAt>>
  /\ UNCHANGED <<cfgVars, mutexVars, twVars, predVars, fetchVars>>

\* nothing is called on a RelaxedAtomic by a single caller
SeqIdle ==
  /\ rop = "none"
  /\ rret = 0
  /\ plain = [v |-> 0, e |-> 0, ret |-> 0]

\* no thread runs the predicate loop
PredIdle ==
  /\ predicate = FALSE
  /\ cpc = [t \in Threads |-> "off"]

\* no thread counts with FetchAddRelaxed
FetchIdle ==
  /\ finitial = 0
  /\ fetched = [t \in Threads |-> <<>>]

AuxIdle == SeqIdle /\ TwIdle /\ PredIdle /\ FetchIdle

\* the mutex is not used by the clients of the cells
MutexIdle ==
  /\ stats_ = NullStats
  /\ clock_ = nullptr
  /\ stats_code_ = OTHER_TICKER
  /\ bg_cv_ = nullptr
  /\ COERCE_CONTEXT_SWITCH = FALSE
  /\ NPERF_CONTEXT = FALSE
  /\ InitMutex

InitCas ==
  /\ MutexIdle
  /\ AuxIdle
  /\ InitAtomic
  /\ storeOp = "Store"
  /\ loadOp = "Load"
  /\ casOp = "CasWeak"
  /\ apc = [t \in Threads |-> "ops"]

NextCas == \E t \in Threads : CasCall(t) \/ CasExec(t) \/ DoStore(t)

SpecCas == InitCas /\ [][NextCas]_vars

InitHandOff ==
  /\ MutexIdle
  /\ AuxIdle
  /\ InitAtomic
  /\ storeOp \in {"Store", "StoreRelaxed"}
  /\ loadOp \in {"Load", "LoadRelaxed"}
  /\ casOp = "CasWeak"
  /\ apc = [t \in Threads |-> IF t = Writer THEN "write" ELSE "spin"]

NextHandOff ==
  \/ WritePayload
  \/ Publish
  \/ \E t \in Threads : Spin(t) \/ ReadPayload(t)

SpecHandOff == InitHandOff /\ [][NextHandOff]_vars

InitRetry ==
  /\ MutexIdle
  /\ AuxIdle
  /\ InitAtomic
  /\ storeOp = "Store"
  /\ loadOp \in {"Load", "LoadRelaxed"}
  /\ casOp \in WeakCasOps
  /\ apc = [t \in Threads |-> "load"]

RetryStep(t) == RetryLoad(t) \/ RetryCas(t)

NextRetry == \E t \in Threads : RetryStep(t)

\* every thread that can take a step eventually takes one
SpecRetry ==
  InitRetry /\ [][NextRetry]_vars /\ \A t \in Threads : WF_vars(RetryStep(t))

\* a cell constructed with any initial value, the other with the default
InitSeq ==
  /\ MutexIdle
  /\ TwIdle
  /\ PredIdle
  /\ FetchIdle
  /\ \E initial \in Values :
       /\ v_ = [c \in Cells |-> IF c = "x" THEN RelaxedAtomic(initial)
                                          ELSE RelaxedAtomic(DefaultInitial)]
       /\ plain = [v |-> initial, e |-> 0, ret |-> 0]
  /\ rop = "none"
  /\ rret = 0
  /\ relView = [c \in Cells |-> BottomView]
  /\ mem = InitMem
  /\ seen = [t \in Threads |-> BottomView]
  /\ expected = [t \in Threads |-> 0]
  /\ call = [t \in Threads |-> NoCall]
  /\ res = [t \in Threads |-> FALSE]
  /\ got = [t \in Threads |-> 0]
  /\ rounds = [t \in Threads |-> 0]
  /\ lastOp = "none"
  /\ spurious = 0
  /\ wins = 0
  /\ readAt = [t \in Threads |-> 0]
  /\ storeOp = "StoreRelaxed"
  /\ loadOp = "LoadRelaxed"
  /\ casOp = "CasWeakRelaxed"
  /\ apc = [t \in Threads |-> IF t = Caser THEN "seq" ELSE "off"]

NextSeq == \E t \in Threads : SeqCall(t)

SpecSeq == InitSeq /\ [][NextSeq]_vars

(***************************************************************************)
(* Clients of the cells, 5: every thread counts in the RelaxedAtomic x     *)
(* with FetchAddRelaxed(1), without a lock, at most 2^TBits times in all. *)
(***************************************************************************)
RECURSIVE SumLen(_, _)
SumLen(logs, S) ==
  IF S = {} THEN 0
  ELSE LET t == CHOOSE u \in S : TRUE IN Len(logs[t]) + SumLen(logs, S \ {t})

\* calls of FetchAddRelaxed(1) that have returned
FetchCalls == SumLen(fetched, Threads)

\* x.FetchAddRelaxed(1) by thread t, one indivisible read-modify-write
FetchAdd1(t) ==
  /\ apc[t] = "count"
  /\ FetchCalls < TMod
  /\ LET r == FetchAddRelaxed(v_["x"], relView["x"], seen[t], 1) IN
       /\ v_' = [v_ EXCEPT !["x"] = r.v]
       /\ relView' = [relView EXCEPT !["x"] = r.rel]
       /\ seen' = [seen EXCEPT ![t] = r.view]
       /\ fetched' = [fetched EXCEPT ![t] = Append(@, r.ret)]
  /\ UNCHANGED <<mem, storeOp, loadOp, casOp, apc, expected, call, res, got,
                 rounds, lastOp, spurious, wins, readAt, finitial>>
  /\ UNCHANGED <<cfgVars, mutexVars, seqVars, twVars, predVars>>

InitFetch ==
  /\ MutexIdle
  /\ SeqIdle
  /\ TwIdle
  /\ PredIdle
  /\ finitial \in Values
  /\ fetched = [t \in Threads |-> <<>>]
  /\ v_ = [c \in Cells |-> IF c = "x" THEN RelaxedAtomic(finitial)
                                     ELSE RelaxedAtomic(DefaultInitial)]
  /\ relView = [c \in Cells |-> BottomView]
  /\ mem = InitMem
  /\ seen = [t \in Threads |-> BottomView]
  /\ expected = [t \in Threads |-> 0]
  /\ call = [t \in Threads |-> NoCall]
  /\ res = [t \in Threads |-> FALSE]
  /\ got = [t \in Threads |-> 0]
  /\ rounds = [t \in Threads |-> 0]
  /\ lastOp = "none"
  /\ spurious = 0
  /\ wins = 0
  /\ readAt = [t \in Threads |-> 0]
  /\ storeOp = "StoreRelaxed"
  /\ loadOp = "LoadRelaxed"
  /\ casOp = "CasWeakRelaxed"
  /\ apc = [t \in Threads |-> "count"]

NextFetch == \E t \in Threads : FetchAdd1(t)

SpecFetch == InitFetch /\ [][NextFetch]_vars

(***************************************************************************)
(* The specifications of the mutex and the condition variable.             *)
(***************************************************************************)
Init ==
  /\ stats_ \in {NullStats} \cup StatsSinks
  /\ clock_ \in {nullptr, "clock"}
  /\ stats_code_ \in {DB_MUTEX_WAIT_MICROS, OTHER_TICKER}
  /\ bg_cv_ \in {nullptr, "cond_"}
  /\ COERCE_CONTEXT_SWITCH \in BOOLEAN
  /\ NPERF_CONTEXT \in BOOLEAN
  /\ InitMutex
  /\ AuxIdle
  /\ AtomicIdle

\* threads that only lock, increment and unlock
Next ==
  \E t \in Threads :
    \/ Lock(t)
    \/ LockInternal(t)
    \/ LockReturn(t)
    \/ CounterRead(t)
    \/ CounterWrite(t)
    \/ Unlock(t)

Spec == Init /\ [][Next]_vars

\* threads that also wait on and signal the condition variable
NextCv ==
  \/ \E t \in Threads :
       \/ Lock(t)
       \/ LockInternal(t)
       \/ LockReturn(t)
       \/ Unlock(t)
       \/ Wait(t)
       \/ TimedWait(t)
       \/ SpuriousWakeup(t)
       \/ Timeout(t)
       \/ CondReacquire(t)
       \/ WaitReturn(t)
       \/ TimedWaitReturn(t)
       \/ Signal(t)
       \/ SignalAll(t)
  \/ Tick

\* the condition variable is exercised with a sink at kAll, a clock and the
\* perf context compiled in: the timer is on for the tag DB_MUTEX_WAIT_MICROS
\* and off for the other tag
InitCv ==
  /\ stats_ = [ptr |-> "stats", level |-> kExceptTimeForMutex + 1]
  /\ clock_ = "clock"
  /\ stats_code_ \in {DB_MUTEX_WAIT_MICROS, OTHER_TICKER}
  /\ bg_cv_ \in {nullptr, "cond_"}
  /\ COERCE_CONTEXT_SWITCH \in BOOLEAN
  /\ NPERF_CONTEXT = FALSE
  /\ InitMutex
  /\ AuxIdle
  /\ AtomicIdle

SpecCv == InitCv /\ [][NextCv]_vars

(***************************************************************************)
(* The latency timer in Lock(), Wait() and TimedWait(), for every          *)
(* construction and build.  The waits are ended by spurious wakeups and by *)
(* the SignalAll of the perturbation.                                      *)
(***************************************************************************)
NextTimer ==
  \E t \in Threads :
    \/ Lock(t)
    \/ LockInternal(t)
    \/ LockReturn(t)
    \/ Unlock(t)
    \/ Wait(t)
    \/ TimedWait(t)
    \/ SpuriousWakeup(t)
    \/ CondReacquire(t)
    \/ WaitReturn(t)
    \/ TimedWaitReturn(t)

\* every construction and build, with the condition variable as signal-group
InitTimer == Init /\ bg_cv_ = "cond_"

SpecTimer == InitTimer /\ [][NextTimer]_vars

(***************************************************************************)
(* The perturbation of Lock() among the other operations: every tag, every *)
(* signal-group and both builds, the timer off.  No client signals the     *)
(* condition variable, so a waiter is woken by a signal only when the      *)
(* signal-group is signaled.                                               *)
(***************************************************************************)
InitChaos ==
  /\ stats_ = NullStats
  /\ clock_ = nullptr
  /\ stats_code_ \in {DB_MUTEX_WAIT_MICROS, OTHER_TICKER}
  /\ bg_cv_ \in {nullptr, "cond_"}
  /\ COERCE_CONTEXT_SWITCH \in BOOLEAN
  /\ NPERF_CONTEXT \in BOOLEAN
  /\ InitMutex
  /\ AuxIdle
  /\ AtomicIdle

NextChaos ==
  \E t \in Threads :
    \/ Lock(t)
    \/ LockInternal(t)
    \/ LockReturn(t)
    \/ Unlock(t)
    \/ Wait(t)
    \/ TimedWait(t)
    \/ SpuriousWakeup(t)
    \/ CondReacquire(t)
    \/ WaitReturn(t)
    \/ TimedWaitReturn(t)

SpecChaos == InitChaos /\ [][NextChaos]_vars

(***************************************************************************)
(* A waiter and its signallers.  Thread 1 runs                             *)
(*     Lock(); while (!predicate) Wait(); Unlock();                        *)
(* and every other thread runs                                             *)
(*     Lock(); predicate = true; Signal(); Unlock();                       *)
(* In NextPredClear a signaller may also take the predicate back before it *)
(* unlocks.  Waits end by Signal() and by the SignalAll of the             *)
(* perturbation in a signaller's Lock().                                   *)
(***************************************************************************)
PredWaiter == 1
Signallers == Threads \ {PredWaiter}

\* Lock(), called once by every thread
PredLock(t) == cpc[t] = "lock" /\ Lock(t)

\* the waiter reads the predicate at the head of its loop
PredCheck(t) ==
  /\ t = PredWaiter
  /\ pc[t] = "held"
  /\ cpc[t] \in {"lock", "check"}
  /\ cpc' = [cpc EXCEPT ![t] = IF predicate THEN "exit" ELSE "wait"]
  /\ UNCHANGED <<predicate, cfgVars, mutexVars, atomicVars, seqVars, twVars,
                 fetchVars>>

\* the waiter has found the predicate false and calls Wait(); it reads the
\* predicate again when Wait() has returned
PredWait(t) ==
  /\ t = PredWaiter
  /\ cpc[t] = "wait"
  /\ WaitCall(t)
  /\ cpc' = [cpc EXCEPT ![t] = "check"]
  /\ UNCHANGED predicate

\* a signaller sets the predicate under the mutex
PredSet(t) ==
  /\ t \in Signallers
  /\ pc[t] = "held"
  /\ cpc[t] = "lock"
  /\ predicate' = TRUE
  /\ cpc' = [cpc EXCEPT ![t] = "signal"]
  /\ UNCHANGED <<cfgVars, mutexVars, atomicVars, seqVars, twVars,
                 fetchVars>>

\* InstrumentedCondVar::Signal() by the signaller: one blocked thread is
\* woken, nothing happens when none is blocked
PredSignal(t) ==
  /\ t \in Signallers
  /\ pc[t] = "held"
  /\ cpc[t] = "signal"
  /\ IF cond_ = {} THEN UNCHANGED <<cond_, woke>> ELSE CondSignal
  /\ cpc' = [cpc EXCEPT ![t] = "unlock"]
  /\ UNCHANGED <<mutex_, abs_time_us, now, pc, timer, ret, samples,
                 counter, tmp, incs, lockCalls, waitCalls, overlapped>>
  /\ UNCHANGED <<predicate, cfgVars, atomicVars, seqVars, twVars,
                 fetchVars>>

\* a signaller takes the predicate back under the mutex
PredClear(t) ==
  /\ t \in Signallers
  /\ pc[t] = "held"
  /\ cpc[t] = "unlock"
  /\ predicate
  /\ predicate' = FALSE
  /\ UNCHANGED <<cpc, cfgVars, mutexVars, atomicVars, seqVars, twVars,
                 fetchVars>>

\* Unlock(), by the waiter that has left its loop and by a signaller
PredUnlock(t) == cpc[t] \in {"exit", "unlock"} /\ Unlock(t)

\* every construction of the mutex, with and without the perturbation; the
\* timer is off
InitPred ==
  /\ stats_ = NullStats
  /\ clock_ = nullptr
  /\ stats_code_ \in {DB_MUTEX_WAIT_MICROS, OTHER_TICKER}
  /\ bg_cv_ \in {nullptr, "cond_"}
  /\ COERCE_CONTEXT_SWITCH \in BOOLEAN
  /\ NPERF_CONTEXT = FALSE
  /\ InitMutex
  /\ AtomicIdle
  /\ SeqIdle
  /\ TwIdle
  /\ FetchIdle
  /\ predicate = FALSE
  /\ cpc = [t \in Threads |-> "lock"]

PredThread(t) ==
  \/ PredLock(t)
  \/ LockInternal(t)
  \/ LockReturn(t)
  \/ PredCheck(t)
  \/ PredWait(t)
  \/ CondReacquire(t)
  \/ WaitReturn(t)
  \/ PredSet(t)
  \/ PredSignal(t)
  \/ PredUnlock(t)

NextPred == \E t \in Threads : PredThread(t)

NextPredClear == \E t \in Threads : PredThread(t) \/ PredClear(t)

\* the predicate is never taken back and every thread is scheduled fairly
SpecPred == InitPred /\ [][NextPred]_vars /\ \A t \in Threads : WF_vars(PredThread(t))

\* the predicate may be taken back
SpecPredClear == InitPred /\ [][NextPredClear]_vars

(***************************************************************************)
(* A test of TimedWait: thread 1 calls TimedWait(d) with the same d again  *)
(* after every return of false, with a callback registered for the sync    *)
(* point or none; the other threads lock, signal and unlock.               *)
(***************************************************************************)
TwWaiter == 1

TwTimedWait(t) ==
  /\ t = TwWaiter
  /\ ~ret[t]
  /\ TimedWaitCall(t, deadline_arg[t], callback)

InitTw ==
  /\ stats_ = NullStats
  /\ clock_ = nullptr
  /\ stats_code_ = DB_MUTEX_WAIT_MICROS
  /\ bg_cv_ = "cond_"
  /\ COERCE_CONTEXT_SWITCH \in BOOLEAN
  /\ NPERF_CONTEXT = FALSE
  /\ InitMutex
  /\ AtomicIdle
  /\ SeqIdle
  /\ PredIdle
  /\ FetchIdle
  /\ sync_hits = [t \in Threads |-> 0]
  /\ \E d \in Deadlines :
       deadline_arg = [t \in Threads |-> IF t = TwWaiter THEN d ELSE 0]
  /\ callback \in Callbacks

NextTw ==
  \/ \E t \in Threads :
       \/ Lock(t)
       \/ LockInternal(t)
       \/ LockReturn(t)
       \/ Unlock(t)
       \/ TwTimedWait(t)
       \/ SpuriousWakeup(t)
       \/ Timeout(t)
       \/ CondReacquire(t)
       \/ TimedWaitReturn(t)
       \/ Signal(t)
  \/ Tick

\* a raw timed wait whose deadline has passed is eventually ended
SpecTw ==
  InitTw /\ [][NextTw]_vars /\ \A t \in Threads : WF_vars(Timeout(t))

(***************************************************************************)
(* Properties of the instrumented mutex and condition variable.            *)
(***************************************************************************)
\* positions between a returned Lock() and the matching Unlock()
InCS(t) == pc[t] \in {"held", "increment"}

\* positions at which a thread believes it owns the raw mutex
HoldingPcs == {"Lock_ret", "held", "increment", "Wait_ret", "TimedWait_ret"}

\* every thread has made its MaxIncs increments and is outside the lock
AllDone == \A t \in Threads : incs[t] = MaxIncs /\ pc[t] = "idle"

\* C1: mutual exclusion. At most one thread is between a returned Lock() and
\* its matching Unlock().
C1_MutualExclusion == Cardinality({t \in Threads : InCS(t)}) <= 1

\* C1, its case: one thread is inside the lock while another one is inside
\* Lock(), waiting for the raw mutex.
C1_Witness ==
  \E t, u \in Threads :
    /\ t # u
    /\ InCS(t)
    /\ pc[u] \in {"LockInternal", "sched_yield", "SleepForMicroseconds"}

\* C2: no lost update under the lock. Whenever no increment is in progress
\* the counter equals the number of increments made, so when every one of
\* the N threads has made its K increments the counter equals N*K.
C2_NoLostUpdate ==
  /\ (\A t \in Threads : pc[t] # "increment") =>
        counter = SumOver(incs, Threads)
  /\ AllDone => counter = NumThreads * MaxIncs

\* C2, its case: all the increments are made, in a build without the
\* perturbation, and the threads took turns (one Lock() per thread would
\* not need MaxLocks calls).
C2_Witness ==
  /\ AllDone
  /\ ~COERCE_CONTEXT_SWITCH
  /\ lockCalls = MaxLocks
  /\ counter = NumThreads * MaxIncs

\* C8 as claimed: a sink whose level is above the threshold gets one sample
\* per completed Lock(); no sink, or a level below the threshold, gets none.
C8_AsClaimed ==
  /\ (stats_.ptr # nullptr /\ stats_.level > kExceptTimeForMutex) =>
        samples = lockCalls
  /\ (stats_.ptr = nullptr \/ stats_.level < kExceptTimeForMutex) =>
        samples = 0

\* C8, amended: one sample per completed Lock() when the sink's level is
\* above the threshold and, in addition, the clock is not null, the tag is
\* DB_MUTEX_WAIT_MICROS and the build has the perf context; no sample when
\* there is no sink or its level is below the threshold.
C8_Samples ==
  /\ ( /\ stats_.ptr # nullptr
       /\ stats_.level > kExceptTimeForMutex
       /\ clock_ # nullptr
       /\ stats_code_ = DB_MUTEX_WAIT_MICROS
       /\ ~NPERF_CONTEXT ) =>
        samples = lockCalls
  /\ (stats_.ptr = nullptr \/ stats_.level < kExceptTimeForMutex) =>
        samples = 0

\* C8, its case: Lock() has returned MaxLocks times and each call recorded
\* its sample.
C8_Witness ==
  /\ stats_.ptr # nullptr
  /\ stats_.level > kExceptTimeForMutex
  /\ lockCalls = MaxLocks
  /\ samples = MaxLocks

\* C9: the perturbation changes only timing. With COERCE_CONTEXT_SWITCH on or
\* off the threads keep mutual exclusion, never sit in the perturbation
\* unless it is compiled in and the tag matches, and end with the same
\* counter value, the sum of the increments.
C9_ChaosOnlyTiming ==
  /\ \A t, u \in Threads : (InCS(t) /\ InCS(u)) => t = u
  /\ \A t \in Threads :
       pc[t] \in {"sched_yield", "SleepForMicroseconds"} => ChaosApplies
  /\ \A chaos \in BOOLEAN :
       (COERCE_CONTEXT_SWITCH = chaos /\ AllDone) =>
          counter = NumThreads * MaxIncs

\* C9, its case: the final state of a perturbed run, in which every Lock()
\* signalled the signal-group and yielded or slept.
C9_Witness ==
  /\ ChaosApplies
  /\ bg_cv_ # nullptr
  /\ AllDone
  /\ lockCalls = MaxLocks

\* C6: Wait() and TimedWait() release the mutex while the caller is blocked
\* and hold it again when the raw wait has returned: a thread that has just
\* come back from the wait is the only holder.
C6_WaitReleasesAndReacquires ==
  \A t \in Threads :
    /\ pc[t] \in RawWaitPcs => mutex_ # t
    /\ pc[t] \in {"Wait_ret", "TimedWait_ret"} =>
         /\ mutex_ = t
         /\ \A u \in Threads \ {t} : pc[u] \notin HoldingPcs

\* C6, its case: a thread is back from Wait() holding the mutex, and another
\* thread took the mutex while it was blocked.
C6_Witness ==
  \E t \in Threads :
    /\ pc[t] = "Wait_ret"
    /\ overlapped[t]
    /\ mutex_ = t

\* the step in which TimedWait() returns to thread t
TimedWaitReturns(t) == pc[t] = "TimedWait_ret" /\ pc'[t] = "held"

\* C7 as claimed: TimedWait() returns true when no signal arrived during the
\* wait and false when another thread signalled it.
C7_AsClaimed ==
  [][\A t \in Threads :
       TimedWaitReturns(t) =>
         /\ woke[t] # "signal" => ret'[t] = TRUE
         /\ woke[t] = "signal" => ret'[t] = FALSE]_vars

\* C7, amended: TimedWait() returns true exactly when the deadline ended the
\* raw wait (the clock has then reached the deadline), so when neither a
\* signal nor a spurious wakeup ended it; it returns false when a signal or a
\* spurious wakeup woke the caller; the value is the raw wait's result.
C7_TimedWaitResult ==
  [][\A t \in Threads :
       TimedWaitReturns(t) =>
         /\ ret'[t] = CondTimedWaitResult(t)
         /\ woke[t] \in {"signal", "spurious", "timeout"}
         /\ woke[t] = "timeout" => (ret'[t] = TRUE /\ now >= abs_time_us[t])
         /\ woke[t] \in {"signal", "spurious"} => ret'[t] = FALSE]_vars

\* C7, its case: a TimedWait() has returned true after the clock reached
\* its deadline.
C7_Witness ==
  \E t \in Threads : pc[t] = "held" /\ ret[t] = TRUE /\ now >= 1

(***************************************************************************)
(* Properties of the atomic cells.                                         *)
(***************************************************************************)
\* thread t's compare-and-swap executes and returns in this step
CasReturns(t) == apc[t] = "cas" /\ apc'[t] = "ops"

\* C3: acquire-release visibility.  When the writer publishes the flag with
\* AcqRelAtomic::Store and a reader that polls it with AcqRelAtomic::Load has
\* seen it set, the reader's read of the payload returns the writer's last
\* write, never an older one.
C3_AcquireReleaseVisibility ==
  \A t \in Readers :
    (storeOp = "Store" /\ loadOp = "Load" /\ apc[t] = "done")
      => got[t] = mem[Len(mem)]

\* a reader went through Store/Load and read the payload
C3_Witness ==
  /\ storeOp = "Store"
  /\ loadOp = "Load"
  /\ Len(mem) = Len(InitMem) + MaxWrites
  /\ \E t \in Readers : apc[t] = "done" /\ got[t] = mem[Len(mem)] /\ got[t] # 0

\* C4: a CasStrong or CasStrongRelaxed that executes while the cell holds the
\* caller's `expected` returns true and leaves `desired` in the cell, whatever
\* the other threads stored to the cells before that moment.
C4_StrongCasSucceeds ==
  [][\A t \in Threads :
       (/\ CasReturns(t)
        /\ call[t].op \in StrongCasOps
        /\ v_[call[t].cell] = expected[t])
         => (res'[t] /\ v_'[call[t].cell] = call[t].desired)]_vars

\* a strong compare-and-swap has returned true after another thread stored
\* to the other cell
C4_Witness ==
  /\ lastOp \in StrongCasOps
  /\ apc[Caser] = "ops"
  /\ res[Caser]
  /\ \E c \in Cells : v_[c] # 0 /\ v_[c] # expected[Caser]

\* C5: whichever of the four compare-and-swaps is called, when it returns
\* false the caller's `expected` holds the cell's value and the cell is as it
\* was, and when it returns true the cell holds `desired`; the cell changes
\* only when the call returns true.
C5_CasFailureWritesBack ==
  [][\A t \in Threads :
       CasReturns(t) =>
         LET c == call[t].cell IN
         /\ ~res'[t] => (expected'[t] = v_'[c] /\ v_'[c] = v_[c])
         /\ res'[t] => v_'[c] = call[t].desired
         /\ v_'[c] # v_[c] => res'[t]]_vars

\* a compare-and-swap has returned false and refreshed `expected`
C5_Witness ==
  /\ lastOp \in CasOps
  /\ apc[Caser] = "ops"
  /\ ~res[Caser]
  /\ expected[Caser] # 0

\* every thread has left its last retry loop
AllRetryDone == \A t \in Threads : apc[t] = "done"

\* a thread whose next compare-and-swap is bound to fail has been overtaken
\* by a successful one since it last read the cell
LockFree ==
  \A t \in Threads :
    (apc[t] = "cas" /\ expected[t] # v_["x"]) => wins > readAt[t]

\* C10: the weak compare-and-swaps may fail with the cell holding `expected`,
\* and still, with every thread scheduled fairly and finitely many spurious
\* failures, every thread leaves its retry loops; a thread's compare-and-swap
\* fails for a changed cell only after another one succeeded, and the loops
\* have all ended exactly when NumThreads * MaxRounds compare-and-swaps have
\* succeeded.
C10_RetryLoopTerminates ==
  /\ [](LockFree /\ (AllRetryDone <=> wins = NumThreads * MaxRounds))
  /\ <>AllRetryDone

\* the loops have ended after MaxSpurious spurious failures
C10_Witness ==
  /\ spurious = MaxSpurious
  /\ AllRetryDone
  /\ wins = NumThreads * MaxRounds

(***************************************************************************)
(* Properties of a RelaxedAtomic with a single caller.                     *)
(***************************************************************************)
\* C11: whatever operations one thread calls on a RelaxedAtomic, constructed
\* with any initial value or the default zero, each call returns what the
\* same operation returns on a plain variable and leaves the same value (and
\* the same `expected`) behind; an exchange or fetch operation returns the
\* value the cell held just before it.
C11_SequentialSemantics ==
  /\ [](/\ v_["x"] = plain.v
        /\ rret = plain.ret
        /\ expected[Caser] = plain.e
        /\ v_["y"] = DefaultInitial)
  /\ [][rop' \in FetchOps => rret' = v_["x"]]_vars

\* a fetch operation has wrapped the cell around and returned the old value
C11_Witness ==
  /\ rop = "FetchAddRelaxed"
  /\ rret = TMod - 1
  /\ v_["x"] = 0
  /\ plain.v = 0

(***************************************************************************)
(* Properties of TimedWait and its sync point.                             *)
(***************************************************************************)
\* the deadline the raw timed wait of t must use: the caller's argument, or
\* what the registered callback wrote over it
EffectiveDeadline(t) ==
  IF callback = NoCallback THEN deadline_arg[t] ELSE callback

\* C12: in every TimedWait call the sync point is processed once, before the
\* raw timed wait, with the caller's deadline; the raw wait uses the deadline
\* the callback left (the caller's own when no callback is registered), and a
\* timeout ends the wait only when the clock has reached that deadline.
C12_SyncPointOncePerCall ==
  /\ [](\A t \in Threads :
          IF pc[t] \in {"cond_TimedWait", "TimedWait_ret"}
            THEN sync_hits[t] = 1 /\ abs_time_us[t] = EffectiveDeadline(t)
            ELSE sync_hits[t] = 0)
  /\ [][\A t \in Threads :
          (woke[t] # "timeout" /\ woke'[t] = "timeout")
            => now >= EffectiveDeadline(t)]_vars

\* a callback moved the deadline forward and the wait timed out before the
\* caller's deadline
C12_Witness ==
  /\ callback # NoCallback
  /\ pc[TwWaiter] = "TimedWait_ret"
  /\ woke[TwWaiter] = "timeout"
  /\ sync_hits[TwWaiter] = 1
  /\ now < deadline_arg[TwWaiter]

(***************************************************************************)
(* Properties of the latency timer.                                        *)
(***************************************************************************)
\* positions of a thread inside Lock(), Wait() or TimedWait()
TimedCallPcs ==
  LockPcs \cup RawWaitPcs \cup {"Wait_ret", "TimedWait_ret"}

\* Wait() and TimedWait() calls that have returned
WaitsReturned ==
  waitCalls - Cardinality({t \in Threads :
                             pc[t] \in RawWaitPcs \cup {"Wait_ret",
                                                        "TimedWait_ret"}})

\* the four conditions on the tag, the sink, the clock and the level
FourConditions ==
  /\ stats_code_ = DB_MUTEX_WAIT_MICROS
  /\ stats_.ptr # nullptr
  /\ clock_ # nullptr
  /\ stats_.level > kExceptTimeForMutex

\* C13 as claimed: a call of Lock(), Wait() or TimedWait() has its timer
\* running exactly when the four conditions hold, and the sink has one sample
\* per returned call then, none otherwise.
C13_AsClaimed ==
  /\ \A t \in Threads : pc[t] \in TimedCallPcs => (timer[t] <=> FourConditions)
  /\ samples = IF FourConditions THEN lockCalls + WaitsReturned ELSE 0

\* C13, amended: a call of Lock(), Wait() or TimedWait() has its timer running
\* exactly when the four conditions hold in a build without NPERF_CONTEXT; the
\* timer runs until the call returns, after its blocking call, and the sink
\* then has one sample per returned call; with another tag, a null clock, a
\* level equal to the threshold or NPERF_CONTEXT it has none.
C13_TimerConditions ==
  /\ \A t \in Threads :
       /\ pc[t] \in TimedCallPcs =>
            (timer[t] <=> (FourConditions /\ ~NPERF_CONTEXT))
       /\ pc[t] \notin TimedCallPcs => ~timer[t]
  /\ samples = IF FourConditions /\ ~NPERF_CONTEXT
                 THEN lockCalls + WaitsReturned
                 ELSE 0

\* a Lock(), a Wait() and a TimedWait() have each recorded their sample
C13_Witness ==
  /\ FourConditions
  /\ lockCalls >= 1
  /\ waitCalls = MaxWaits
  /\ WaitsReturned = MaxWaits
  /\ samples = lockCalls + MaxWaits
  /\ \E t \in Threads : pc[t] = "held" /\ ret[t] = FALSE /\ sync_hits[t] = 0


(***************************************************************************)
(* Properties of the predicate loop.                                       *)
(***************************************************************************)
\* the waiter is blocked, the predicate is set and no signal is still to come
LostWakeup ==
  /\ PredWaiter \in cond_
  /\ predicate
  /\ \A s \in Signallers : cpc[s] # "signal"

\* the waiter has read the predicate as false and has not blocked yet
BetweenCheckAndBlock == cpc[PredWaiter] = "wait" /\ pc[PredWaiter] = "held"

\* C14: no wakeup is lost.  While the waiter is between its check of the
\* predicate and its blocking in Wait() it holds the mutex and no other thread
\* is inside the critical section to set the predicate or signal; the waiter
\* is never left blocked with the predicate set and the signal sent; and, with
\* every thread scheduled fairly, a waiter that found the predicate false
\* leaves its loop, with the predicate true.
C14_NoLostWakeup ==
  /\ [](BetweenCheckAndBlock =>
          /\ mutex_ = PredWaiter
          /\ \A s \in Signallers : pc[s] # "held")
  /\ []~LostWakeup
  /\ (cpc[PredWaiter] = "wait") ~> (cpc[PredWaiter] = "exit" /\ predicate)

\* without the perturbation the waiter has blocked once, was woken by the
\* signaller's Signal() and has left its loop
C14_Witness ==
  /\ ~ChaosApplies
  /\ waitCalls = 1
  /\ cpc[PredWaiter] = "exit"
  /\ pc[PredWaiter] = "held"
  /\ predicate
  /\ \E s \in Signallers : cpc[s] = "unlock"

\* C15: the waiter that has left `while (!predicate) cv.Wait()` and still
\* holds the mutex has the predicate true, whatever woke it and although other
\* threads take the predicate back under the mutex.
C15_LoopExitsWithPredicate ==
  (cpc[PredWaiter] = "exit" /\ pc[PredWaiter] = "held") => predicate

\* Wait() has returned with the predicate false: no signaller has set it yet,
\* the waiter was woken by the SignalAll of the perturbation in a signaller's
\* Lock()
C15_Witness ==
  /\ ChaosApplies
  /\ pc[PredWaiter] = "Wait_ret"
  /\ woke[PredWaiter] = "signal"
  /\ ~predicate
  /\ \A s \in Signallers : cpc[s] = "lock"

(***************************************************************************)
(* Properties of the perturbation.                                         *)
(***************************************************************************)
\* the thread is in sched_yield() or SleepForMicroseconds() of LockInternal
PerturbPcs == {"sched_yield", "SleepForMicroseconds"}

\* thread t starts to yield or sleep in this step
StartsPerturb(t) == pc[t] \notin PerturbPcs /\ pc'[t] \in PerturbPcs

\* thread u is woken by a signal in this step
WokenBySignal(u) == woke[u] # "signal" /\ woke'[u] = "signal"

\* C16: a thread starts to yield or sleep, and the waiters of the signal-group
\* are signaled, only in a step of LockInternal() of a mutex whose tag is
\* DB_MUTEX_WAIT_MICROS in a build with COERCE_CONTEXT_SWITCH; no step of
\* Lock() with another tag, of Unlock(), Wait() or TimedWait() does either.
C16_PerturbOnlyInTaggedLock ==
  [][/\ \A t \in Threads :
          StartsPerturb(t) =>
            /\ pc[t] = "LockInternal"
            /\ COERCE_CONTEXT_SWITCH
            /\ stats_code_ = DB_MUTEX_WAIT_MICROS
     /\ \A u \in Threads :
          WokenBySignal(u) =>
            /\ COERCE_CONTEXT_SWITCH
            /\ stats_code_ = DB_MUTEX_WAIT_MICROS
            /\ \E t \in Threads : pc[t] = "LockInternal" /\ StartsPerturb(t)
     /\ (\E t \in Threads : pc[t] \in {"held"} \cup RawWaitPcs
                              /\ pc'[t] # pc[t]) =>
          \A u \in Threads : ~StartsPerturb(u) /\ ~WokenBySignal(u)]_vars

\* Lock() of a tagged mutex is in its sleep and has woken a thread blocked in
\* Wait() through the signal-group
C16_Witness ==
  /\ COERCE_CONTEXT_SWITCH
  /\ stats_code_ = DB_MUTEX_WAIT_MICROS
  /\ \E t, u \in Threads :
       /\ pc[t] = "SleepForMicroseconds"
       /\ pc[u] = "cond_Wait"
       /\ woke[u] = "signal"

\* C17: in one call of Lock() the signal-group is signaled (if bg_cv_ is not
\* null) in the step that starts the yield or sleep, the raw mutex is taken
\* after the yield or sleep when the perturbation applies and at once when it
\* does not; no thread is in the yield or sleep with the raw mutex held; the
\* perturbation takes no mutex, and signals nothing when bg_cv_ is null.
C17_PerturbBeforeAcquire ==
  /\ [](\A t \in Threads : pc[t] \in PerturbPcs \cup {"LockInternal"}
                             => mutex_ # t)
  /\ [][/\ \A t \in Threads :
             /\ StartsPerturb(t) => mutex_' = mutex_
             /\ (pc[t] \in LockPcs /\ mutex_ # t /\ mutex_' = t) =>
                  /\ pc'[t] = "Lock_ret"
                  /\ IF COERCE_CONTEXT_SWITCH
                          /\ stats_code_ = DB_MUTEX_WAIT_MICROS
                       THEN pc[t] \in PerturbPcs
                       ELSE pc[t] = "LockInternal"
        /\ \A u \in Threads :
             WokenBySignal(u) =>
               /\ bg_cv_ # nullptr
               /\ \E t \in Threads : StartsPerturb(t)]_vars

\* a Lock() has signaled the signal-group, yielded and then taken the raw
\* mutex, before the thread it woke could take it
C17_Witness ==
  /\ bg_cv_ # nullptr
  /\ \E t, u \in Threads :
       /\ pc[t] = "Lock_ret"
       /\ mutex_ = t
       /\ pc[u] \in RawWaitPcs
       /\ woke[u] = "signal"

(***************************************************************************)
(* Properties of the deadline of TimedWait.                                *)
(***************************************************************************)
\* thread t is blocked in the raw timed wait
BlockedInTimedWait(t) == t \in cond_ /\ pc[t] = "cond_TimedWait"

\* thread t is inside a TimedWait call while the clock reads its deadline
InProgressAtDeadline(t) ==
  /\ pc[t] \in {"cond_TimedWait", "TimedWait_ret"}
  /\ now = EffectiveDeadline(t)

\* C18 as claimed: no call stays blocked once the clock has passed the
\* deadline, and the call in progress when the clock reads the deadline
\* returns true.
C18_AsClaimed ==
  /\ \A t \in Threads :
       (BlockedInTimedWait(t) /\ now >= EffectiveDeadline(t))
         ~> ~BlockedInTimedWait(t)
  /\ [][\A t \in Threads :
          (InProgressAtDeadline(t) /\ TimedWaitReturns(t)) => ret'[t]]_vars

\* C18, amended: every call of the loop waits for the same absolute deadline,
\* whatever the clock reads when it is called and however many calls came
\* before; no call stays blocked once the clock has reached the deadline; a
\* call returns true only when the clock has reached the deadline, and the
\* call in progress at the deadline returns true unless a signal or a spurious
\* wakeup ended its wait, in which case it returns false.
C18_AbsoluteDeadline ==
  /\ [](\A t \in Threads :
          pc[t] = "cond_TimedWait" =>
            abs_time_us[t] = SyncPointCallback(callback, deadline_arg[t]))
  /\ \A t \in Threads :
       (BlockedInTimedWait(t) /\ now >= EffectiveDeadline(t))
         ~> ~BlockedInTimedWait(t)
  /\ [][\A t \in Threads :
          TimedWaitReturns(t) =>
            /\ ret'[t] => now >= EffectiveDeadline(t)
            /\ InProgressAtDeadline(t) =>
                 (ret'[t] <=> woke[t] \notin {"signal", "spurious"})]_vars

\* the caller was woken before the deadline, called TimedWait again with the
\* same deadline, and that call was ended by the deadline
C18_Witness ==
  /\ callback = NoCallback
  /\ waitCalls = 2
  /\ pc[TwWaiter] = "held"
  /\ ret[TwWaiter] = TRUE
  /\ now = deadline_arg[TwWaiter]

(***************************************************************************)
(* Properties of the concurrent counter.                                   *)
(***************************************************************************)
\* the calls that have returned: thread and position in its log
FetchReturns ==
  {c \in Threads \X (1..TMod) : c[2] <= Len(fetched[c[1]])}

\* C19: whatever the interleaving of the threads' FetchAddRelaxed(1) calls,
\* and with no mutex held, no two calls have returned the same value, the
\* values returned are the ones the counter went through, and the counter is
\* its initial value plus the number of calls (in T's arithmetic).
C19_NoLostUpdate ==
  /\ mutex_ = NoThread
  /\ \A c, d \in FetchReturns :
       c # d => fetched[c[1]][c[2]] # fetched[d[1]][d[2]]
  /\ {fetched[c[1]][c[2]] : c \in FetchReturns}
       = {(finitial + k) % TMod : k \in 0..(FetchCalls - 1)}
  /\ v_["x"] = (finitial + FetchCalls) % TMod

\* the threads' calls have interleaved: each has returned a value that lies
\* between two values returned to the other
C19_Witness ==
  /\ FetchCalls = TMod
  /\ \A t \in Threads : Len(fetched[t]) >= 1
  /\ \E t \in Threads :
       /\ Len(fetched[t]) >= 2
       /\ fetched[t][2] # (fetched[t][1] + 1) % TMod

(***************************************************************************)
(* Properties of the relaxed hand-off.                                     *)
(***************************************************************************)
\* the reader has seen the flag set
FlagSeen(t) == apc[t] \in {"read", "done"}

\* C20: a reader that has seen the flag set through Store and Load has every
\* payload write of the writer ordered before its read and reads the last
\* one; through StoreRelaxed or LoadRelaxed seeing the flag orders no payload
\* write before the read, which may then return a stale payload.
C20_RelaxedGivesNoOrdering ==
  \A t \in Readers :
    FlagSeen(t) =>
      IF storeOp = "Store" /\ loadOp = "Load"
        THEN /\ seen[t] = Len(mem)
             /\ apc[t] = "done" => got[t] = mem[Len(mem)]
        ELSE /\ seen[t] = BottomView
             /\ apc[t] = "done" => \E i \in 1..Len(mem) : got[t] = mem[i]

\* with StoreRelaxed and LoadRelaxed a reader has seen the flag set and has
\* read the payload as it was before the writer's writes
C20_Witness ==
  /\ storeOp = "StoreRelaxed"
  /\ loadOp = "LoadRelaxed"
  /\ apc[Writer] = "done"
  /\ v_["x"] = FlagSet
  /\ \E t \in Readers :
       /\ apc[t] = "done"
       /\ got[t] = mem[1]
       /\ got[t] # mem[Len(mem)]

=============================================================================
